---- MODULE Spec2Model ----
(***************************************************************************)
(* A model of email_blast.py: the CSV-driven mail merge.                    *)
(*                                                                         *)
(* The script is one sequential process.  Its position is pc:              *)
(*   "load_csv" -> "prompt" -> "confirm" -> "row" (the loop head)           *)
(*   -> "connect" -> "starttls" -> "login" -> "sendmail" -> "row" ...       *)
(* and it ends in "done" (main returned), "exited" (exit() was called) or   *)
(* "crashed" (an exception nobody catches; the interpreter prints a         *)
(* traceback and ends with status 1).                                       *)
(*                                                                         *)
(* The environment is: the parsed CSV rows, the listing of templates/, the  *)
(* SMTP_* environment variables, the --dry-run option, the operator's       *)
(* answers, and the SMTP server's reaction to every command.  Subject and   *)
(* sender are carried unchanged into the message and are left out.         *)
(*                                                                         *)
(* Strings are atomic values here.  Where the program looks inside a        *)
(* string (splitext, lower, validate_email, encode) the model uses a table  *)
(* over the strings of its bounded input sets; CodePoints gives the         *)
(* characters of a field value as Unicode code points.                      *)
(***************************************************************************)
EXTENDS Integers, Sequences, FiniteSets, TLC

VARIABLES
    csvRows,        \* the rows csv.reader yields for the input file
    files,          \* os.listdir("templates")
    SMTP_SETTINGS,  \* the module-level settings dictionary
    dry_run,        \* kwargs["dry_run"]; "" when the option is not given
    TEMPLATES,      \* template key -> list of extensions
    headers,        \* main: headers (<<>> stands for None)
    rows,           \* main: rows
    email_column,   \* main: email_column, the operator's choice
    template,       \* main: template, the operator's choice
    proceed,        \* main: proceed; "unasked" before the confirmation
    rowIdx,         \* the row the for loop is at (1-based; 1 before it starts)
    mail_to,        \* main: mail_to of the row being sent
    msg,            \* main: msg, the composed message of the row being sent
    content,        \* create_message: content after the last render
    charset,        \* create_message: charset after the last selection loop
    smtp,           \* send_email: smtp, the session object (0: none)
    wire,           \* every SMTP command issued, with session and outcome
    sent,           \* every message the server accepted
    pc,             \* position of the script
    exitCode,       \* process exit status; -1 while the process runs
    diag            \* what the process printed when it ended abnormally

vars == <<csvRows, files, SMTP_SETTINGS, dry_run, TEMPLATES, headers, rows,
          email_column, template, proceed, rowIdx, mail_to, msg, content,
          charset, smtp, wire, sent, pc, exitCode, diag>>

-----------------------------------------------------------------------------
(* Bounds and input sets *)

MaxCsvRows == 3

HeaderMinFields == 3

HeaderRow == <<"name", "email", "plan">>

\* "Jose" stands for the name written with e-acute (see CodePoints).
CsvRowChoices ==
    { <<>>,
      <<"Report", "2024">>,
      HeaderRow,
      <<"Ada", "ada@example.com", "pro">>,
      <<"Jose", "Bob@EXAMPLE.COM", "R&D">> }

CsvInputs == UNION { [1..n -> CsvRowChoices] : n \in 0..MaxCsvRows }

\* One directory of six files.  os.listdir promises no order, and the order
\* decides the order of the extensions under a key: the listings below give
\* each of the four combinations for the two keys that have two files (the
\* second and third are orders seen on ext4 and on tmpfs).  Any other order
\* of these files yields one of the same four TEMPLATES.
ListingChoices ==
    { <<"welcome.txt", "raw.txt", "broken.txt", "promo.HTML", "welcome.html",
        "raw.html">>,
      <<"welcome.txt", "welcome.html", "raw.html", "promo.HTML", "broken.txt",
        "raw.txt">>,
      <<"raw.html", "welcome.html", "promo.HTML", "broken.txt", "raw.txt",
        "welcome.txt">>,
      <<"welcome.html", "raw.txt", "promo.HTML", "broken.txt", "raw.html",
        "welcome.txt">> }

SettingsChoices ==
    { [smtp_user |-> u, smtp_passwd |-> p, smtp_security |-> s] :
        u \in {"", "mailer"}, p \in {"", "s3cret"}, s \in {"tls", ""} }

DryRunChoices == {"", "test@example.com"}

-----------------------------------------------------------------------------
(* String tables *)

Splitext(file) ==
    CASE file = "welcome.txt"  -> <<"welcome", ".txt">>
      [] file = "welcome.html" -> <<"welcome", ".html">>
      [] file = "promo.HTML"   -> <<"promo", ".HTML">>
      [] file = "raw.txt"      -> <<"raw", ".txt">>
      [] file = "raw.html"     -> <<"raw", ".html">>
      [] file = "broken.txt"   -> <<"broken", ".txt">>

Lower(s) ==
    CASE s = ".HTML" -> ".html"
      [] OTHER       -> s

\* f"{template_key}{ext}": the file whose name splits into key and ext.
TemplateFile(key, ext) ==
    CHOOSE f \in {"welcome.txt", "welcome.html", "promo.HTML", "raw.txt",
                  "raw.html", "broken.txt"} :
        Splitext(f) = <<key, ext>>

CodePoints(s) ==
    CASE s = "Ada"  -> <<65, 100, 97>>
      [] s = "Jose" -> <<74, 111, 115, 233>>
      [] s = "pro"  -> <<112, 114, 111>>
      [] s = "R&D"  -> <<82, 38, 68>>
      [] s = "name" -> <<110, 97, 109, 101>>
      [] s = "plan" -> <<112, 108, 97, 110>>
      [] s = "Report" -> <<82, 101, 112, 111, 114, 116>>
      [] s = "2024" -> <<50, 48, 50, 52>>
      [] OTHER      -> <<>>

\* "email" in h.lower() or "e-mail" in h.lower()
MentionsEmail(h) == h = "email"

\* validate_email(addr, check_deliverability=False): the normalized address,
\* or "" when EmailNotValidError is raised.
validate_email(addr) ==
    CASE addr = "ada@example.com"  -> "ada@example.com"
      [] addr = "Bob@EXAMPLE.COM"  -> "Bob@example.com"
      [] addr = "test@example.com" -> "test@example.com"
      [] OTHER                     -> ""

-----------------------------------------------------------------------------
(* Module level: TEMPLATES *)

RECURSIVE LoadTemplatesFrom(_, _, _)
LoadTemplatesFrom(listing, i, acc) ==
    IF i > Len(listing) THEN acc
    ELSE LET fileparts == Splitext(listing[i])
             key  == fileparts[1]
             have == IF key \in DOMAIN acc THEN acc[key] ELSE <<>>
             next == [k \in DOMAIN acc \cup {key} |->
                        IF k = key THEN Append(have, fileparts[2]) ELSE acc[k]]
         IN  LoadTemplatesFrom(listing, i + 1, next)

LoadTemplates(listing) == LoadTemplatesFrom(listing, 1, <<>>)

-----------------------------------------------------------------------------
(* main: reading the CSV *)

\* Mutant: "more than 3 values", as the comment above the test words it.
IsHeaderRowMoreThan3(row) == Len(row) > HeaderMinFields

\* len(row) >= 3
IsHeaderRow(row) == Len(row) >= HeaderMinFields

RECURSIVE ReadCsvFrom(_, _, _, _)
ReadCsvFrom(input, i, hdr, acc) ==
    IF i > Len(input) THEN [headers |-> hdr, rows |-> acc]
    ELSE IF hdr = <<>>
         THEN IF IsHeaderRow(input[i])
              THEN ReadCsvFrom(input, i + 1, input[i], acc)
              ELSE ReadCsvFrom(input, i + 1, hdr, acc)
         ELSE ReadCsvFrom(input, i + 1, hdr, Append(acc, input[i]))

ReadCsv(input) == ReadCsvFrom(input, 1, <<>>, <<>>)

\* dict(zip(headers, row)): pairs up to the shorter length, a repeated key
\* keeps its last value.
ZipDict(hdrs, row) ==
    LET n    == IF Len(hdrs) <= Len(row) THEN Len(hdrs) ELSE Len(row)
        keys == { hdrs[i] : i \in 1..n }
        last(k) == CHOOSE i \in 1..n :
                      hdrs[i] = k /\ \A j \in 1..n : hdrs[j] = k => j <= i
    IN  [k \in keys |-> row[last(k)]]

-----------------------------------------------------------------------------
(* The templates directory: each file as literal text and {{variable}}      *)
(* references.  A segment with var = "" is literal text; a segment with a   *)
(* condition <<name, value>> is inside {% if name == "value" %}.            *)

Lit(text) == [var |-> "", lit |-> text, cond |-> <<>>]
Var(name) == [var |-> name, lit |-> <<>>, cond |-> <<>>]
LitIf(name, value, text) == [var |-> "", lit |-> text, cond |-> <<name, value>>]

TemplateSource(file) ==
    CASE file = "welcome.txt" ->      \* Hello {{name}}, plan={{plan}}
            << Lit(<<72, 101, 108, 108, 111, 32>>), Var("name"),
               Lit(<<44, 32, 112, 108, 97, 110, 61>>), Var("plan") >>
      [] file = "welcome.html" ->     \* <b>{{name}} {{plan}}</b>
            << Lit(<<60, 98, 62>>), Var("name"), Lit(<<32>>), Var("plan"),
               Lit(<<60, 47, 98, 62>>) >>
      [] file = "promo.HTML" ->       \* {{name}} 5(euro sign)
            << Var("name"), Lit(<<32, 53, 8364>>) >>
      [] file = "raw.txt" ->
            \* {{name}}{% if plan == "R&D" %}{{ "\ud800" }}{% endif %}
            \* (a lone surrogate for the rows of one plan)
            << Var("name"), LitIf("plan", "R&D", <<55296>>) >>
      [] file = "raw.html" ->         \* {{name}} (euro sign)
            << Var("name"), Lit(<<32, 8364>>) >>
      [] file = "broken.txt" ->       \* Hello {{name  (the tag is not closed)
            << Lit(<<72, 101, 108, 108, 111, 32>>) >>

\* jinja_env.get_template(name) raises TemplateSyntaxError
SyntaxFault(file) == file = "broken.txt"

\* select_autoescape(): on for names ending in .html, .htm, .xml, any case
AutoEscape(file) == Lower(Splitext(file)[2]) \in {".html", ".htm", ".xml"}

\* markupsafe.escape on one character
EscapeChar(c) ==
    CASE c = 38 -> <<38, 97, 109, 112, 59>>     \* &amp;
      [] c = 60 -> <<38, 108, 116, 59>>         \* &lt;
      [] c = 62 -> <<38, 103, 116, 59>>         \* &gt;
      [] c = 39 -> <<38, 35, 51, 57, 59>>       \* &#39;
      [] c = 34 -> <<38, 35, 51, 52, 59>>       \* &#34;
      [] OTHER  -> <<c>>

RECURSIVE Escape(_)
Escape(text) ==
    IF text = <<>> THEN <<>> ELSE EscapeChar(Head(text)) \o Escape(Tail(text))

\* One segment rendered: an undefined variable renders as the empty string.
\* A condition on an undefined variable is false.
RenderSegment(file, seg, data) ==
    IF seg.cond # <<>> /\ (seg.cond[1] \notin DOMAIN data
                           \/ data[seg.cond[1]] # seg.cond[2]) THEN <<>>
    ELSE IF seg.var = "" THEN seg.lit
    ELSE IF seg.var \notin DOMAIN data THEN <<>>
    ELSE IF AutoEscape(file) THEN Escape(CodePoints(data[seg.var]))
    ELSE CodePoints(data[seg.var])

RECURSIVE RenderFrom(_, _, _, _)
RenderFrom(file, segs, i, data) ==
    IF i > Len(segs) THEN <<>>
    ELSE RenderSegment(file, segs[i], data) \o RenderFrom(file, segs, i + 1, data)

\* jinja_env.get_template(name).render(data=data, **data)
Render(file, data) == RenderFrom(file, TemplateSource(file), 1, data)

-----------------------------------------------------------------------------
(* create_message *)

Charsets == <<"US-ASCII", "ISO-8859-1", "UTF-8">>

\* content.encode(cs) raises no UnicodeError
Encodes(cs, text) ==
    CASE cs = "US-ASCII"   -> \A i \in 1..Len(text) : text[i] < 128
      [] cs = "ISO-8859-1" -> \A i \in 1..Len(text) : text[i] < 256
      [] cs = "UTF-8"      -> \A i \in 1..Len(text) : text[i] \notin 55296..57343

\* The for/try/except/else/break loop: the loop variable keeps the candidate
\* at which the loop broke, or the last candidate when it never broke.
RECURSIVE ChooseCharsetFrom(_, _)
ChooseCharsetFrom(i, text) ==
    IF Encodes(Charsets[i], text) THEN Charsets[i]
    ELSE IF i = Len(Charsets) THEN Charsets[i]
    ELSE ChooseCharsetFrom(i + 1, text)

\* Mutant: the loop without its break always ends on the last candidate.
ChooseCharsetNoBreak(text) == Charsets[Len(Charsets)]

ChooseCharset(text) == ChooseCharsetFrom(1, text)

\* ext.lower() in [".html", ".htm"]
IsHtml(ext) == Lower(ext) \in {".html", ".htm"}

\* Mutant: parts inserted at the front, which reverses the variant order.
AttachFirst(parts, part) == <<part>> \o parts

\* msgalt.attach(part)
Attach(parts, part) == Append(parts, part)

\* formataddr(("", mail_to)): with an empty display name the address alone
FormatAddr(addr) == addr

NoMsg == [To |-> "", alternative |-> <<>>]

\* The loop over TEMPLATES[template_key].  get_template raises on a template
\* that does not compile.  MIMEText raises UnicodeEncodeError when the
\* content does not encode in the chosen charset (for an HTML part
\* content.encode(charset) raises it first).
RECURSIVE AttachParts(_, _, _, _, _, _)
AttachParts(key, exts, i, data, parts, locals) ==
    IF i > Len(exts)
    THEN [raised |-> "", alternative |-> parts,
          content |-> locals.content, charset |-> locals.charset]
    ELSE IF SyntaxFault(TemplateFile(key, exts[i]))
    THEN [raised |-> "TemplateSyntaxError", alternative |-> parts,
          content |-> locals.content, charset |-> locals.charset]
    ELSE LET text == Render(TemplateFile(key, exts[i]), data)
             cs   == ChooseCharset(text)
             part == [subtype |-> IF IsHtml(exts[i]) THEN "html" ELSE "plain",
                      charset |-> cs, payload |-> text]
         IN  IF ~Encodes(cs, text)
             THEN [raised |-> "UnicodeEncodeError", alternative |-> parts,
                   content |-> text, charset |-> cs]
             ELSE AttachParts(key, exts, i + 1, data, Attach(parts, part),
                              [content |-> text, charset |-> cs])

create_message(to, key, data, locals) ==
    LET r == AttachParts(key, TEMPLATES[key], 1, data, <<>>, locals)
    IN  [raised |-> r.raised, content |-> r.content, charset |-> r.charset,
         msg |-> [To |-> FormatAddr(to), alternative |-> r.alternative]]

-----------------------------------------------------------------------------
(* handle_smtp_error and the SMTP steps of send_email *)

\* What the server, or the network, can answer to a command.  The first
\* three are subclasses of smtplib.SMTPException; OSError (a refused or
\* broken connection, a TLS failure) is not.
SmtpFaults == {"SMTPResponseException", "SMTPServerDisconnected", "OSError"}
SendFaults == SmtpFaults \cup {"SMTPRecipientsRefused"}

IsSMTPException(error) ==
    error \in {"SMTPResponseException", "SMTPServerDisconnected",
               "SMTPRecipientsRefused"}

\* Mutant: the error is reported and the connection is tried again.
handle_smtp_error_retry(error) ==
    [pc |-> "connect", exitCode |-> -1, diag |-> "Unknown Error"]

\* How the process ends.  A refused-recipients error reaches
\* error.recipients.iteritems(), which no dict has: AttributeError, uncaught.
\* No exception carries a .message attribute, so whatever has no smtp_error
\* is reported as unknown.
handle_smtp_error(error) ==
    IF error = "SMTPRecipientsRefused"
    THEN [pc |-> "crashed", exitCode |-> 1, diag |-> "AttributeError"]
    ELSE IF error = "SMTPResponseException"
    THEN [pc |-> "exited", exitCode |-> 1, diag |-> "smtp_error"]
    ELSE [pc |-> "exited", exitCode |-> 1, diag |-> "Unknown Error"]

\* try: ... except smtplib.SMTPException as err: handle_smtp_error(err)
OnFault(error) ==
    IF IsSMTPException(error) THEN handle_smtp_error(error)
    ELSE [pc |-> "crashed", exitCode |-> 1, diag |-> error]

\* SMTP_SETTINGS["smtp_security"] == "tls"
NeedsStartTls(settings) == settings.smtp_security = "tls"

\* Mutant: login as soon as either credential is set.
NeedsLoginEither(settings) == settings.smtp_user # "" \/ settings.smtp_passwd # ""

\* SMTP_SETTINGS["smtp_user"] and SMTP_SETTINGS["smtp_passwd"]
NeedsLogin(settings) == settings.smtp_user # "" /\ settings.smtp_passwd # ""

AfterStartTls(settings) == IF NeedsLogin(settings) THEN "login" ELSE "sendmail"
AfterConnect(settings) ==
    IF NeedsStartTls(settings) THEN "starttls" ELSE AfterStartTls(settings)

\* send_email begins by opening a connection, whatever was opened before.
SendEntry(session) == "connect"

\* smtplib.SMTP(host) makes a new session object on every call.
NewSession(w) == Cardinality({ i \in 1..Len(w) : w[i].op = "connect" }) + 1

Command(op, session, outcome) ==
    [op |-> op, session |-> session, ok |-> (outcome = "ok")]

-----------------------------------------------------------------------------
(* main: the operator's answers and the row loop *)

\* Mutant: the answer is not looked at.
AfterConfirmIgnoresAnswer(answer) == [pc |-> "row", exitCode |-> -1]

\* if not proceed: exit(0)
AfterConfirm(answer) ==
    IF answer THEN [pc |-> "row", exitCode |-> -1]
    ELSE [pc |-> "exited", exitCode |-> 0]

\* data[column], "" where RowOutcome says the lookup raises
Lookup(data, column) == IF column \in DOMAIN data THEN data[column] ELSE ""

\* Mutant: the address is not validated.
RowOutcomeNoValidation(hdrs, column, row) ==
    IF column \notin DOMAIN ZipDict(hdrs, row) THEN "KeyError" ELSE "compose"

\* Mutant: a row without the column is passed over like an invalid one.
RowOutcomeSkipsMissing(hdrs, column, row) ==
    LET data == ZipDict(hdrs, row)
    IN  IF validate_email(Lookup(data, column)) = "" THEN "skip" ELSE "compose"

\* What the loop body does with a row before composing: data[email_column]
\* raises KeyError, validate_email raises EmailNotValidError (continue), or
\* the row goes on to create_message.
RowOutcome(hdrs, column, row) ==
    LET data == ZipDict(hdrs, row)
    IN  IF column \notin DOMAIN data THEN "KeyError"
        ELSE IF validate_email(Lookup(data, column)) = "" THEN "skip"
        ELSE "compose"

\* Mutant: the override is dropped.
RecipientIgnoresDryRun(dry, normalized) == normalized

\* if kwargs["dry_run"]: mail_to = kwargs["dry_run"]
Recipient(dry, normalized) == IF dry # "" THEN dry ELSE normalized

Running == exitCode = -1

Init ==
    /\ csvRows \in CsvInputs
    /\ files \in ListingChoices
    /\ SMTP_SETTINGS \in SettingsChoices
    /\ dry_run \in DryRunChoices
    /\ TEMPLATES = LoadTemplates(files)
    /\ headers = <<>>
    /\ rows = <<>>
    /\ email_column = "email"
    /\ template = ""
    /\ proceed = "unasked"
    /\ rowIdx = 1
    /\ mail_to = ""
    /\ msg = NoMsg
    /\ content = <<>>
    /\ charset = ""
    /\ smtp = 0
    /\ wire = <<>>
    /\ sent = <<>>
    /\ pc = "load_csv"
    /\ exitCode = -1
    /\ diag = ""

inputs == <<csvRows, files, SMTP_SETTINGS, dry_run, TEMPLATES>>
answers == <<email_column, template, proceed>>
composer == <<mail_to, msg, content, charset>>
network == <<smtp, wire, sent>>

End(r) == pc' = r.pc /\ exitCode' = r.exitCode /\ diag' = r.diag

\* with open(csv_file) ... for row in csvreader
LoadCsv ==
    /\ pc = "load_csv"
    /\ LET r == ReadCsv(csvRows)
       IN  headers' = r.headers /\ rows' = r.rows
    /\ pc' = "prompt"
    /\ UNCHANGED <<inputs, answers, rowIdx, composer, network, exitCode, diag>>

\* Building the questions: iterating None raises TypeError, and next() on a
\* generator that yields nothing raises StopIteration.
PromptCrash ==
    /\ pc = "prompt"
    /\ \A i \in 1..Len(headers) : ~MentionsEmail(headers[i])
    /\ End([pc |-> "crashed", exitCode |-> 1,
            diag |-> IF headers = <<>> THEN "TypeError" ELSE "StopIteration"])
    /\ UNCHANGED <<inputs, headers, rows, answers, rowIdx, composer, network>>

\* answers = prompt(questions)
Prompt ==
    /\ pc = "prompt"
    /\ \E i \in 1..Len(headers) : MentionsEmail(headers[i])
    /\ \E i \in 1..Len(headers) : email_column' = headers[i]
    /\ template' \in DOMAIN TEMPLATES
    /\ pc' = "confirm"
    /\ UNCHANGED <<inputs, headers, rows, proceed, rowIdx, composer, network,
                   exitCode, diag>>

\* proceed = inquirer.confirm(...).execute()
Confirm ==
    /\ pc = "confirm"
    /\ \E answer \in BOOLEAN :
          /\ proceed' = IF answer THEN "yes" ELSE "no"
          /\ pc' = AfterConfirm(answer).pc
          /\ exitCode' = AfterConfirm(answer).exitCode
    /\ UNCHANGED <<inputs, headers, rows, email_column, template, rowIdx,
                   composer, network, diag>>

\* The for loop is exhausted: main returns.
LoopDone ==
    /\ pc = "row"
    /\ rowIdx > Len(rows)
    /\ End([pc |-> "done", exitCode |-> 0, diag |-> ""])
    /\ UNCHANGED <<inputs, headers, rows, answers, rowIdx, composer, network>>

\* mail_to = data[email_column] with no such key
RowKeyError ==
    /\ pc = "row"
    /\ rowIdx <= Len(rows)
    /\ RowOutcome(headers, email_column, rows[rowIdx]) = "KeyError"
    /\ End([pc |-> "crashed", exitCode |-> 1, diag |-> "KeyError"])
    /\ UNCHANGED <<inputs, headers, rows, answers, rowIdx, composer, network>>

\* except EmailNotValidError: print(...); continue
RowSkip ==
    /\ pc = "row"
    /\ rowIdx <= Len(rows)
    /\ RowOutcome(headers, email_column, rows[rowIdx]) = "skip"
    /\ mail_to' = Lookup(ZipDict(headers, rows[rowIdx]), email_column)
    /\ rowIdx' = rowIdx + 1
    /\ UNCHANGED <<inputs, headers, rows, answers, msg, content, charset,
                   network, pc, exitCode, diag>>

\* The row is valid: the recipient is settled and create_message runs.
RowCompose ==
    /\ pc = "row"
    /\ rowIdx <= Len(rows)
    /\ RowOutcome(headers, email_column, rows[rowIdx]) = "compose"
    /\ LET data == ZipDict(headers, rows[rowIdx])
           to   == Recipient(dry_run,
                             validate_email(Lookup(data, email_column)))
           r    == create_message(to, template, data,
                                  [content |-> content, charset |-> charset])
       IN  /\ mail_to' = to
           /\ content' = r.content
           /\ charset' = r.charset
           /\ IF r.raised = ""
              THEN /\ msg' = r.msg
                   /\ pc' = SendEntry(smtp)
                   /\ UNCHANGED <<exitCode, diag>>
              ELSE /\ msg' = msg
                   /\ End([pc |-> "crashed", exitCode |-> 1, diag |-> r.raised])
    /\ UNCHANGED <<inputs, headers, rows, answers, rowIdx, network>>

\* smtp = smtplib.SMTP(SMTP_SETTINGS["smtp_host"])
SmtpConnect ==
    /\ pc = "connect"
    /\ \E outcome \in {"ok"} \cup SmtpFaults :
          /\ wire' = Append(wire, Command("connect", NewSession(wire), outcome))
          /\ IF outcome = "ok"
             THEN /\ smtp' = NewSession(wire)
                  /\ pc' = AfterConnect(SMTP_SETTINGS)
                  /\ UNCHANGED <<exitCode, diag>>
             ELSE /\ smtp' = smtp
                  /\ End(OnFault(outcome))
    /\ UNCHANGED <<inputs, headers, rows, answers, rowIdx, composer, sent>>

\* smtp.starttls()
SmtpStartTls ==
    /\ pc = "starttls"
    /\ \E outcome \in {"ok"} \cup SmtpFaults :
          /\ wire' = Append(wire, Command("starttls", smtp, outcome))
          /\ IF outcome = "ok"
             THEN /\ pc' = AfterStartTls(SMTP_SETTINGS)
                  /\ UNCHANGED <<exitCode, diag>>
             ELSE End(OnFault(outcome))
    /\ UNCHANGED <<inputs, headers, rows, answers, rowIdx, composer, smtp, sent>>

\* smtp.login(user, passwd)
SmtpLogin ==
    /\ pc = "login"
    /\ \E outcome \in {"ok"} \cup SmtpFaults :
          /\ wire' = Append(wire, Command("login", smtp, outcome))
          /\ IF outcome = "ok"
             THEN /\ pc' = "sendmail"
                  /\ UNCHANGED <<exitCode, diag>>
             ELSE End(OnFault(outcome))
    /\ UNCHANGED <<inputs, headers, rows, answers, rowIdx, composer, smtp, sent>>

\* smtp.sendmail(from_addr, [mail_to], message.as_string()); time.sleep(0.5)
SmtpSendmail ==
    /\ pc = "sendmail"
    /\ \E outcome \in {"ok"} \cup SendFaults :
          /\ wire' = Append(wire, Command("sendmail", smtp, outcome))
          /\ IF outcome = "ok"
             THEN /\ sent' = Append(sent, [row |-> rowIdx, session |-> smtp,
                                           to_addrs |-> <<mail_to>>, msg |-> msg])
                  /\ rowIdx' = rowIdx + 1
                  /\ pc' = "row"
                  /\ UNCHANGED <<exitCode, diag>>
             ELSE /\ UNCHANGED <<sent, rowIdx>>
                  /\ End(OnFault(outcome))
    /\ UNCHANGED <<inputs, headers, rows, answers, composer, smtp>>

Next ==
    \/ LoadCsv
    \/ PromptCrash
    \/ Prompt
    \/ Confirm
    \/ LoopDone
    \/ RowKeyError
    \/ RowSkip
    \/ RowCompose
    \/ SmtpConnect
    \/ SmtpStartTls
    \/ SmtpLogin
    \/ SmtpSendmail

Spec == Init /\ [][Next]_vars

-----------------------------------------------------------------------------
(* Vocabulary of the properties *)

Sending == pc \in {"connect", "starttls", "login", "sendmail"}

OfSession(sid) == SelectSeq(wire, LAMBDA c : c.session = sid)
Sessions == { wire[i].session : i \in 1..Len(wire) }
SentRows == { sent[k].row : k \in 1..Len(sent) }

\* Row i has a value in the chosen column.
HasColumn(i) == email_column \in DOMAIN ZipDict(headers, rows[i])
\* Row i has a value in the chosen column and it is not a valid address.
InvalidAddress(i) ==
    HasColumn(i) /\ validate_email(ZipDict(headers, rows[i])[email_column]) = ""
\* Row i has a value in the chosen column and it is a valid address.
ValidAddress(i) ==
    HasColumn(i) /\ validate_email(ZipDict(headers, rows[i])[email_column]) # ""

\* Every message the program has composed and still holds or has delivered,
\* with the row it was composed for.
Composed ==
    { [row |-> sent[k].row, msg |-> sent[k].msg] : k \in 1..Len(sent) }
    \cup (IF Sending THEN {[row |-> rowIdx, msg |-> msg]} ELSE {})

\* Index of the first row of the input with three or more fields, 0 if none.
FirstWide(input) ==
    IF \E i \in 1..Len(input) : Len(input[i]) >= 3
    THEN CHOOSE i \in 1..Len(input) :
            Len(input[i]) >= 3 /\ \A j \in 1..(i - 1) : Len(input[j]) < 3
    ELSE 0

\* The narrowest of the three character sets that holds the text.
Narrowest(text) ==
    IF \A i \in 1..Len(text) : text[i] <= 127 THEN "US-ASCII"
    ELSE IF \A i \in 1..Len(text) : text[i] <= 255 THEN "ISO-8859-1"
    ELSE "UTF-8"

HasSurrogate(text) == \E i \in 1..Len(text) : text[i] >= 55296 /\ text[i] <= 57343

\* The steps one send must issue under the settings, in order.
ExpectedSteps ==
    <<"connect">>
    \o (IF SMTP_SETTINGS.smtp_security = "tls" THEN <<"starttls">> ELSE <<>>)
    \o (IF SMTP_SETTINGS.smtp_user # "" /\ SMTP_SETTINGS.smtp_passwd # ""
        THEN <<"login">> ELSE <<>>)
    \o <<"sendmail">>

-----------------------------------------------------------------------------
(* The claims *)

\* C1: one session for the whole run.  Once a message has been sent, exactly
\* one connect has been issued and every message went out on that one
\* session.  (send_email connects anew on every call, so this fails as soon
\* as a second row is sent.)
C1_OneSessionForWholeRun ==
    Len(sent) >= 1 =>
        /\ Cardinality({ i \in 1..Len(wire) : wire[i].op = "connect" }) = 1
        /\ \A k \in 1..Len(sent) : sent[k].session = sent[1].session

\* C2: an SMTP fault at any step ends the process with exit code 1 at once.
\* The failed command is the last one ever issued, the row it failed for is
\* not sent, and no row after it is touched.
C2_SmtpFaultEndsRun ==
    \A i \in 1..Len(wire) :
        ~wire[i].ok =>
            /\ i = Len(wire)
            /\ exitCode = 1
            /\ pc \in {"exited", "crashed"}
            /\ \A r \in SentRows : r < rowIdx

C2_Witness ==
    /\ Len(wire) = 1 /\ wire[1].op = "connect" /\ ~wire[1].ok
    /\ exitCode = 1
    /\ rowIdx = 1 /\ Len(rows) = 2 /\ ValidAddress(2)

\* C3: a row whose address fails validation is never composed for and never
\* sent, and the run does not end at it: while the loop is on such a row it
\* is at its head, running, and moves on.
C3_InvalidRowsSkipped ==
    \A i \in 1..Len(rows) :
        InvalidAddress(i) =>
            /\ i \notin SentRows
            /\ \A m \in Composed : m.row # i
            /\ (proceed = "yes" /\ rowIdx = i) => (pc = "row" /\ Running)

C3_Witness ==
    /\ dry_run # ""
    /\ Len(rows) = 2 /\ InvalidAddress(1) /\ SentRows = {2}

\* C4: in dry-run mode every message goes to the dry-run address, in the
\* envelope and in the To header, and a run that completes has sent exactly
\* one message for each row with a valid address and none for any other.
C4_DryRunRecipients ==
    dry_run # "" =>
        /\ \A k \in 1..Len(sent) :
              sent[k].to_addrs = <<dry_run>> /\ sent[k].msg.To = dry_run
        /\ pc = "done" =>
              /\ SentRows = { i \in 1..Len(rows) : ValidAddress(i) }
              /\ Len(sent) = Cardinality(SentRows)

C4_Witness ==
    /\ dry_run = "test@example.com"
    /\ pc = "done" /\ Len(sent) = 2
    /\ \A i \in 1..2 : ZipDict(headers, rows[i])[email_column] # dry_run

\* C5: once the file is read, headers is the first row with 3 or more fields
\* and rows is everything after it, in order; with no such row there is no
\* header and no data row.
C5_HeaderDetection ==
    pc # "load_csv" =>
        LET k == FirstWide(csvRows)
        IN  IF k = 0 THEN headers = <<>> /\ rows = <<>>
            ELSE /\ headers = csvRows[k]
                 /\ rows = SubSeq(csvRows, k + 1, Len(csvRows))

C5_Witness ==
    /\ pc = "prompt"
    /\ Len(csvRows) = 3 /\ Len(csvRows[1]) = 2 /\ headers = csvRows[2]
    /\ rows = <<csvRows[3]>> /\ Len(csvRows[3]) >= 3

\* C6: every key of TEMPLATES has at least one variant, and a composed
\* message holds one part per variant of its key, part j being variant j
\* rendered for the row, HTML exactly when the variant's extension is.
C6_OnePartPerVariant ==
    /\ \A k \in DOMAIN TEMPLATES : Len(TEMPLATES[k]) >= 1
    /\ \A m \in Composed :
          LET exts == TEMPLATES[template]
              data == ZipDict(headers, rows[m.row])
          IN  /\ Len(m.msg.alternative) = Len(exts)
              /\ \A j \in 1..Len(exts) :
                    /\ m.msg.alternative[j].payload =
                          Render(TemplateFile(template, exts[j]), data)
                    /\ m.msg.alternative[j].subtype =
                          (IF Lower(exts[j]) \in {".html", ".htm"}
                           THEN "html" ELSE "plain")

C6_Witness ==
    /\ Len(sent) = 1
    /\ Len(TEMPLATES[template]) = 2
    /\ Len(sent[1].msg.alternative) = 2
    /\ sent[1].msg.alternative[1].subtype = "plain"
    /\ sent[1].msg.alternative[2].subtype = "html"

\* C7: nothing reaches the SMTP server before the operator says yes, and a
\* no ends the process with exit code 0.
C7_NoSendWithoutConfirmation ==
    /\ proceed # "yes" => (wire = <<>> /\ sent = <<>> /\ ~Sending)
    /\ proceed = "no" => (pc = "exited" /\ exitCode = 0)

C7_Witness ==
    /\ proceed = "no" /\ exitCode = 0
    /\ Len(rows) >= 1 /\ ValidAddress(1)

\* C8: the commands of a session are a prefix of connect, STARTTLS (only
\* under "tls"), login (only with user and password), sendmail; a command is
\* issued only after the ones before it succeeded.
C8_StepOrder ==
    \A sid \in Sessions :
        LET cmds == OfSession(sid)
        IN  /\ Len(cmds) <= Len(ExpectedSteps)
            /\ \A i \in 1..Len(cmds) :
                  /\ cmds[i].op = ExpectedSteps[i]
                  /\ i < Len(cmds) => cmds[i].ok

C8_Witness ==
    /\ Len(sent) = 1 /\ Len(wire) = 4
    /\ wire[2].op = "starttls" /\ wire[3].op = "login"
    /\ wire[4].op = "sendmail" /\ wire[4].ok

\* The content the selection loop last ran on has become a part of msg,
\* labelled with the charset the loop chose.
LastContentIsPart ==
    \E j \in 1..Len(msg.alternative) :
        msg.alternative[j].payload = content /\ msg.alternative[j].charset = charset

\* C9, as stated: every rendered content becomes a part labelled with the
\* first of US-ASCII, ISO-8859-1, UTF-8 that encodes it, and with UTF-8 when
\* none does, without an error.
C9_PartAlwaysLabelled ==
    charset # "" =>
        /\ charset = Narrowest(content)
        /\ LastContentIsPart
        /\ diag # "UnicodeEncodeError"

\* C9, amended: every part is labelled with the narrowest of US-ASCII,
\* ISO-8859-1 and UTF-8 that holds its content, and so is what the selection
\* loop leaves behind.  Content that encodes becomes a part with that label.
\* Content that no candidate holds leaves the loop at UTF-8 without an error
\* from the loop, but no part is built from it: building the part raises
\* UnicodeEncodeError and the process ends with exit code 1.
C9_CharsetFallback ==
    /\ \A m \in Composed :
          \A j \in 1..Len(m.msg.alternative) :
              /\ m.msg.alternative[j].charset = Narrowest(m.msg.alternative[j].payload)
              /\ ~HasSurrogate(m.msg.alternative[j].payload)
    /\ charset # "" => charset = Narrowest(content)
    /\ (charset # "" /\ ~HasSurrogate(content)) =>
          (LastContentIsPart /\ diag # "UnicodeEncodeError")
    /\ (charset # "" /\ HasSurrogate(content)) =>
          /\ charset = "UTF-8"
          /\ ~LastContentIsPart
          /\ pc = "crashed" /\ exitCode = 1 /\ diag = "UnicodeEncodeError"

\* A first row went out with a US-ASCII part and a UTF-8 part, and the
\* second row's content encodes in none of the three.
C9_Witness ==
    /\ Len(sent) = 1
    /\ sent[1].msg.alternative[1].charset = "US-ASCII"
    /\ sent[1].msg.alternative[2].charset = "UTF-8"
    /\ HasSurrogate(content) /\ charset = "UTF-8"
    /\ diag = "UnicodeEncodeError"

\* C10: the loop passes a row over only when its address fails validation.
\* A row without the chosen column, a template that does not compile, a part
\* that cannot be built and a failed SMTP command each end the process with exit code 1 on the spot, and an
\* ended process does nothing more.
C10_OnlyValidationRecovers ==
    [][ /\ (pc = "row" /\ pc' = "row" /\ rowIdx' = rowIdx + 1) =>
              (InvalidAddress(rowIdx) /\ sent' = sent /\ wire' = wire)
        /\ (pc = "row" /\ rowIdx <= Len(rows) /\ ~HasColumn(rowIdx)) =>
              (exitCode' = 1 /\ rowIdx' = rowIdx)
        /\ (pc = "row" /\ rowIdx <= Len(rows) /\ ValidAddress(rowIdx)
              /\ \E j \in 1..Len(TEMPLATES[template]) :
                    LET file == TemplateFile(template, TEMPLATES[template][j])
                    IN  \/ file = "broken.txt"
                        \/ HasSurrogate(Render(file, ZipDict(headers, rows[rowIdx])))) =>
              (exitCode' = 1 /\ rowIdx' = rowIdx)
        /\ (Len(wire') > Len(wire) /\ ~wire'[Len(wire')].ok) =>
              (exitCode' = 1 /\ rowIdx' = rowIdx /\ sent' = sent)
        /\ ~Running => UNCHANGED vars
      ]_vars

C10_Witness ==
    /\ diag = "KeyError" /\ exitCode = 1
    /\ rowIdx = 1 /\ Len(rows) = 2 /\ ValidAddress(2)
    /\ sent = <<>>

====
